---------------------------- MODULE Spec2Model ----------------------------
(***************************************************************************)
(* A model of trajectories.py: the command line limits parser              *)
(* (check_limits), the contact extractor (hydrogen_bonds, sort_contacts),  *)
(* the statistics step (contacts_csv), the contact aggregator              *)
(* (reduce_contacts_dataframe), the heat map matrices                      *)
(* (get_df_distances_nb_contacts) and the main pipeline that chains them.  *)
(*                                                                         *)
(* Strings are sequences of one-character strings, so that the regular     *)
(* expressions, int() and the f-string formatting of the source are        *)
(* computed and not assumed.  Distances are in tenths of an Angstrom.      *)
(***************************************************************************)
EXTENDS Integers, Sequences, FiniteSets, TLC

VARIABLES
    pc,               \* position of the run in __main__ / in the function under study
    args,             \* the parsed command line (argparse namespace)
    limits_mask_roi,  \* the value returned by check_limits
    raised,           \* the exception that ended the run, NoException otherwise
    exit_code,        \* the process exit status, Running while the run goes on
    written,          \* the output files written so far, in order
    trajectory,       \* the loaded trajectory (its number of frames)
    h_bonds,          \* what the bond detector returned: keys and distance series
    data_h_bonds,     \* the ContactRecord table returned by hydrogen_bonds
    stats,            \* the ContactStats table returned by contacts_csv
    hm                \* the heat maps built so far (aggregated table and matrices)

vars == <<pc, args, limits_mask_roi, raised, exit_code, written, trajectory,
          h_bonds, data_h_bonds, stats, hm>>

-----------------------------------------------------------------------------
(* Bounds of the model.                                                    *)

\* largest residue number written in a mask or a region of interest
MaxLimit == 3

\* largest number of candidate pairs the bond detector lists for a short trajectory
MaxPairs == 2

\* largest number of frames of a short trajectory (every distance series is tried)
MaxFrames == 2
\* Largest number of rows of a statistics table handed to the reduction.
MaxRows == 3

-----------------------------------------------------------------------------
(* Characters, strings and the conversions of the source.                  *)

\* Python's None, kept apart from every string (a string is a sequence of characters)
None == <<"None">>

\* the truth value Python gives a str-or-None in `if mask:`
Truthy(s) == s # None /\ s # <<>>

Digits == {"0", "1", "2", "3", "4", "5", "6", "7", "8", "9"}

IsDigit(c) == c \in Digits

DigitVal(c) ==
    CASE c = "0" -> 0 [] c = "1" -> 1 [] c = "2" -> 2 [] c = "3" -> 3
      [] c = "4" -> 4 [] c = "5" -> 5 [] c = "6" -> 6 [] c = "7" -> 7
      [] c = "8" -> 8 [] c = "9" -> 9

DigitChar(d) ==
    CASE d = 0 -> "0" [] d = 1 -> "1" [] d = 2 -> "2" [] d = 3 -> "3"
      [] d = 4 -> "4" [] d = 5 -> "5" [] d = 6 -> "6" [] d = 7 -> "7"
      [] d = 8 -> "8" [] d = 9 -> "9"

\* int(s) for a string of decimal digits (leading zeros are accepted)
RECURSIVE StrToInt(_)
StrToInt(s) ==
    IF s = <<>> THEN 0
    ELSE 10 * StrToInt(SubSeq(s, 1, Len(s) - 1)) + DigitVal(s[Len(s)])

\* f"{n}" for an integer n >= 0
RECURSIVE IntToStr(_)
IntToStr(n) ==
    IF n < 10 THEN <<DigitChar(n)>>
    ELSE Append(IntToStr(n \div 10), DigitChar(n % 10))

\* the end of the longest run of digits of s that starts at p (s[p] is a digit)
DigitRunEnd(s, p) ==
    CHOOSE q \in p..Len(s) :
        /\ \A r \in p..q : IsDigit(s[r])
        /\ (q = Len(s) \/ ~IsDigit(s[q + 1]))

SetMin(S) == CHOOSE x \in S : \A y \in S : x <= y
SetMax(S) == CHOOSE x \in S : \A y \in S : x >= y

NoMatch == [matched |-> FALSE]

\* re.compile("(\\d+)-(\\d+)").search(s): the leftmost match, each \d+ greedy.
\* A match starts at i when s[i] is a digit, the run of digits from i is followed
\* by "-" and by a digit; a shorter first group is followed by a digit, never "-".
RoiStarts(s) ==
    {i \in 1..Len(s) :
        /\ IsDigit(s[i])
        /\ LET j == DigitRunEnd(s, i)
           IN  j + 2 <= Len(s) /\ s[j + 1] = "-" /\ IsDigit(s[j + 2])}

pattern_roi_search(s) ==
    IF RoiStarts(s) = {} THEN NoMatch
    ELSE LET i == SetMin(RoiStarts(s))
             j == DigitRunEnd(s, i)
         IN  [matched |-> TRUE,
              group1  |-> SubSeq(s, i, j),
              group2  |-> SubSeq(s, j + 2, DigitRunEnd(s, j + 2))]

\* re.compile(":(\\d+)-(\\d+)").search(s)
MaskStarts(s) ==
    {i \in 1..Len(s) :
        /\ s[i] = ":"
        /\ i + 1 <= Len(s) /\ IsDigit(s[i + 1])
        /\ LET j == DigitRunEnd(s, i + 1)
           IN  j + 2 <= Len(s) /\ s[j + 1] = "-" /\ IsDigit(s[j + 2])}

pattern_mask_search(s) ==
    IF MaskStarts(s) = {} THEN NoMatch
    ELSE LET i == SetMin(MaskStarts(s))
             j == DigitRunEnd(s, i + 1)
         IN  [matched |-> TRUE,
              group1  |-> SubSeq(s, i + 1, j),
              group2  |-> SubSeq(s, j + 2, DigitRunEnd(s, j + 2))]

-----------------------------------------------------------------------------
(* check_limits                                                            *)

\* the empty dict {}
EmptyDict == [k \in {} |-> 0]

NoException == [exc |-> "none", msg |-> "none"]

ArgumentTypeError(msg) == [exc |-> "ArgumentTypeError", msg |-> msg]

\* limits["mask"] after the first block of check_limits
MaskLimits(mask) ==
    IF Truthy(mask) /\ pattern_mask_search(mask).matched
    THEN [min |-> StrToInt(pattern_mask_search(mask).group1),
          max |-> StrToInt(pattern_mask_search(mask).group2)]
    ELSE EmptyDict

\* limits["roi"] after the second block of check_limits
RoiLimits(roi) ==
    IF Truthy(roi) /\ pattern_roi_search(roi).matched
    THEN [min |-> StrToInt(pattern_roi_search(roi).group1),
          max |-> StrToInt(pattern_roi_search(roi).group2)]
    ELSE EmptyDict

\* the comparison of the region of interest with the mask maximum
OutsideMaskMutant(mask_min, offset, mask_max) == mask_min + offset > mask_max

OutsideMask(mask_min, offset, mask_max) == mask_min + offset >= mask_max

\* check_limits(mask, roi): the exception raised, or the limits returned
check_limits(mask, roi) ==
    LET lm == MaskLimits(mask)
        lr == RoiLimits(roi)
    IN  IF Truthy(mask) /\ ~pattern_mask_search(mask).matched
        THEN [raised |-> ArgumentTypeError("mask is not a valid format")]
        ELSE IF Truthy(roi) /\ ~pattern_roi_search(roi).matched
        THEN [raised |-> ArgumentTypeError("roi-hm is not a valid format")]
        ELSE IF Truthy(mask) /\ Truthy(roi) /\ OutsideMask(lm.min, lr.min, lm.max)
        THEN [raised |-> ArgumentTypeError("roi minimum limit is outside the mask limits")]
        ELSE IF Truthy(mask) /\ Truthy(roi) /\ OutsideMask(lm.min, lr.max, lm.max)
        THEN [raised |-> ArgumentTypeError("roi maximum limit is outside the mask limits")]
        ELSE [raised |-> NoException, limits |-> [mask |-> lm, roi |-> lr]]

-----------------------------------------------------------------------------
(* Python floats (IEEE 754 binary64, round to nearest, ties to even) for   *)
(* the one computation of the source that rounds: count / length * 100.    *)
(* A positive float is (hi * 2^48 + mid * 2^24 + lo) * 2^exp: a mantissa   *)
(* of 53 bits in three limbs, 16 <= hi < 32 and mid, lo < 2^24. Zero has   *)
(* the three limbs zero.                                                   *)

\* 2^24
Limb == 4096 * 4096

FloatZero == [exp |-> 0, hi |-> 0, mid |-> 0, lo |-> 0]

IsZero(x) == x.hi = 0

\* the mantissa plus one unit in the last place, the carry going up the limbs
Increment(x) ==
    IF x.lo + 1 < Limb THEN [x EXCEPT !.lo = @ + 1]
    ELSE IF x.mid + 1 < Limb THEN [x EXCEPT !.lo = 0, !.mid = @ + 1]
    ELSE IF x.hi + 1 < 32 THEN [x EXCEPT !.lo = 0, !.mid = 0, !.hi = @ + 1]
    ELSE [exp |-> x.exp + 1, hi |-> 16, mid |-> 0, lo |-> 0]

\* x rounded up by one unit in the last place, or not
Rounded(x, up) == IF up THEN Increment(x) ELSE x

\* the number z of doublings of k that reach n: k * 2^z >= n (k >= 1)
RECURSIVE ShiftTo(_, _)
ShiftTo(k, n) == IF k >= n THEN 0 ELSE 1 + ShiftTo(2 * k, n)

\* the number d of halvings of k that bring it under n
RECURSIVE ShiftUnder(_, _)
ShiftUnder(k, n) == IF k < n THEN 0 ELSE 1 + ShiftUnder(k \div 2, n)

RECURSIVE Pow2(_)
Pow2(z) == IF z = 0 THEN 1 ELSE 2 * Pow2(z - 1)

\* k / n for integers 0 <= k <= n, 1 <= n < 128: Python's true division, correctly
\* rounded. The long division of k * 2^t by n, 16 <= k * 2^t / n < 32, gives hi, then
\* mid and lo from the remainders, 24 bits at a time.
TrueDiv(k, n) ==
    IF k = 0 THEN FloatZero
    ELSE LET t == ShiftTo(k, 16 * n)
             a == k * Pow2(t)
             r0 == a % n
             r1 == (r0 * Limb) % n
             r2 == (r1 * Limb) % n
             lo == (r1 * Limb) \div n
         IN  Rounded([exp |-> 0 - t - 48,
                      hi |-> a \div n,
                      mid |-> (r0 * Limb) \div n,
                      lo |-> lo],
                     2 * r2 > n \/ (2 * r2 = n /\ lo % 2 = 1))

\* x * c for a float x >= 0 and an integer 1 <= c < 128, rounded to 53 bits: the
\* product limb by limb, then the d bits beyond 53 dropped
FloatTimes(x, c) ==
    IF IsZero(x) THEN FloatZero
    ELSE LET x0 == c * x.lo
             x1 == c * x.mid + x0 \div Limb
             top == c * x.hi + x1 \div Limb
             p_mid == x1 % Limb
             p_lo == x0 % Limb
             d == ShiftUnder(top, 32)
             D == Pow2(d)
             lo == (p_mid % D) * (Limb \div D) + p_lo \div D
             dropped == p_lo % D
         IN  Rounded([exp |-> x.exp + d,
                      hi |-> top \div D,
                      mid |-> (top % D) * (Limb \div D) + p_mid \div D,
                      lo |-> lo],
                     2 * dropped > D \/ (2 * dropped = D /\ lo % 2 = 1))

\* the float m * 2^e of a command line value (m an integer, 0 <= m < 2^24)
FloatOf(v) ==
    IF v.m = 0 THEN FloatZero
    ELSE LET z == ShiftTo(v.m, Limb \div 2)
             m == v.m * Pow2(z)
         IN  [exp |-> v.e - z - 29,
              hi |-> m \div Pow2(19),
              mid |-> (m % Pow2(19)) * 32,
              lo |-> 0]

\* x >= y for floats x, y >= 0
FloatGeq(x, y) ==
    IF IsZero(y) THEN TRUE
    ELSE IF IsZero(x) THEN FALSE
    ELSE IF x.exp # y.exp THEN x.exp > y.exp
    ELSE IF x.hi # y.hi THEN x.hi > y.hi
    ELSE IF x.mid # y.mid THEN x.mid > y.mid
    ELSE x.lo >= y.lo

-----------------------------------------------------------------------------
(* The command line.                                                       *)

\* the mask string ":<a>-<b>" and the region of interest string "<c>-<d>"
MaskStr(a, b) == <<":">> \o a \o <<"-">> \o b
RoiStr(c, d) == c \o <<"-">> \o d

\* the numerals of 0..MaxLimit, and the same with a leading zero
Numerals ==
    {IntToStr(n) : n \in 0..MaxLimit} \cup {<<"0">> \o IntToStr(n) : n \in 1..MaxLimit}

WellFormedMasks == {MaskStr(a, b) : a \in Numerals, b \in Numerals}
WellFormedRois == {RoiStr(c, d) : c \in Numerals, d \in Numerals}

\* strings that are not of the form, with and without the form inside them
OtherMasks == {<<>>, <<"1", "-", "2">>, <<":", "1", "-">>, <<":", "1", "-", "2", "x">>}
OtherRois == {<<>>, <<"1", "2">>, <<"-", "2">>, <<"x", "1", "-", "2">>}

MaskArgs == {None} \cup WellFormedMasks \cup OtherMasks
RoiArgs == {None} \cup WellFormedRois \cup OtherRois

\* a float given as m * 2^e (20.0 is <<20, 0>>, 57.5 is <<115, -1>>)
Float(m, e) == [m |-> m, e |-> e]

\* the defaults of --second-half-percent (20.0) and --distance-contacts (3.0 Angstroms)
DefaultSecondHalfPercent == Float(20, 0)
DefaultDistanceContacts == 30

Running == -1

NoTrajectory == [n_frames |-> 0, keys |-> <<>>, dist |-> <<>>]

Namespace(mask, roi_hm, second_half_percent, individual_plots) ==
    [mask |-> mask, roi_hm |-> roi_hm, second_half_percent |-> second_half_percent,
     distance_contacts |-> DefaultDistanceContacts, individual_plots |-> individual_plots]

\* the state of a run that starts at position p with command line a and trajectory t
StartAt(p, a, t) ==
    /\ pc = p
    /\ args = a
    /\ limits_mask_roi = [mask |-> EmptyDict, roi |-> EmptyDict]
    /\ raised = NoException
    /\ exit_code = Running
    /\ written = <<>>
    /\ trajectory = t
    /\ h_bonds = <<>>
    /\ data_h_bonds = <<>>
    /\ stats = <<>>
    /\ hm = <<>>

-----------------------------------------------------------------------------
(* Contact names and the naming pattern.                                   *)

\* the characters of the names, in code point order (the order of Python's str <)
CodePoints ==
    <<"-", "0", "1", "2", "3", "4", "5", "6", "7", "8", "9", ":",
      "A", "B", "C", "D", "E", "F", "G", "H", "I", "J", "K", "L", "M",
      "N", "O", "P", "Q", "R", "S", "T", "U", "V", "W", "X", "Y", "Z", "_",
      "a", "b", "c", "d", "e", "f", "g", "h", "i", "j", "k", "l", "m",
      "n", "o", "p", "q", "r", "s", "t", "u", "v", "w", "x", "y", "z">>

Ord(c) == CHOOSE i \in 1..Len(CodePoints) : CodePoints[i] = c

\* a < b for two Python strings
StrLess(a, b) ==
    LET differ == {i \in 1..Len(a) : i <= Len(b) /\ a[i] # b[i]}
    IN  IF a = b THEN FALSE
        ELSE IF differ = {} THEN Len(a) < Len(b)
        ELSE IF \E i \in 1..SetMin(differ) : i > Len(b) THEN FALSE
        ELSE Ord(a[SetMin(differ)]) < Ord(b[SetMin(differ)])

\* re.compile("(\\D{3})(\\d+).+-(\\D{3})(\\d+)").search(s).  The match starts at the
\* leftmost i with three non-digits and a digit; group 2 is the longest run of digits
\* that leaves at least one character before a "-" followed by three non-digits and
\* a digit; ".+" is greedy, so that "-" is the last such one; group 4 is greedy.
ContactHyphens(s) ==
    {k \in 1..(Len(s) - 4) :
        /\ s[k] = "-"
        /\ ~IsDigit(s[k + 1]) /\ ~IsDigit(s[k + 2]) /\ ~IsDigit(s[k + 3])
        /\ IsDigit(s[k + 4])}

ContactStarts(s) ==
    {i \in 1..(Len(s) - 3) :
        /\ ~IsDigit(s[i]) /\ ~IsDigit(s[i + 1]) /\ ~IsDigit(s[i + 2])
        /\ IsDigit(s[i + 3])
        /\ \E k \in ContactHyphens(s) : k >= i + 5}

pattern_contact_search(s) ==
    IF ContactStarts(s) = {} THEN NoMatch
    ELSE LET i == SetMin(ContactStarts(s))
             j == SetMax({e \in (i + 3)..DigitRunEnd(s, i + 3) :
                             \E k \in ContactHyphens(s) : k >= e + 2})
             k == SetMax({h \in ContactHyphens(s) : h >= j + 2})
         IN  [matched |-> TRUE,
              group1  |-> SubSeq(s, i, i + 2),
              group2  |-> SubSeq(s, i + 3, j),
              group3  |-> SubSeq(s, k + 1, k + 3),
              group4  |-> SubSeq(s, k + 4, DigitRunEnd(s, k + 4))]

-----------------------------------------------------------------------------
(* What the bond detector returns (pt.hbond, pt.distance).                 *)

\* the residues of the topology: position -> residue name
ResidueName(p) ==
    CASE p = 1 -> <<"A", "S", "P">>
      [] p = 2 -> <<"A", "R", "G">>
      [] p = 10 -> <<"G", "L", "U">>

\* the key the detector gives the pair of atom `atom` of residue p and the N-H of
\* residue q, as in "ASP1_OD1-ARG2_N-H"
DetectorKey(p, atom, q) ==
    ResidueName(p) \o IntToStr(p) \o <<"_">> \o atom \o <<"-">>
        \o ResidueName(q) \o IntToStr(q) \o <<"_", "N", "-", "H">>

\* the key of a pair of nucleotides, whose one-letter residue names the pattern misses
NucleotideKey == <<"U", "1", "_", "O", "-", "A", "2", "_", "N", "-", "H">>

\* the key of the aggregate series the detector lists with the pairs
TotalKey ==
    <<"t", "o", "t", "a", "l", "_", "s", "o", "l", "u", "t", "e", "_",
      "h", "b", "o", "n", "d", "s">>

\* the name of the frame index column
FramesKey == <<"f", "r", "a", "m", "e", "s">>

AtomO == <<"O">>
AtomOD1 == <<"O", "D", "1">>

DetectorKeys ==
    {DetectorKey(1, AtomO, 2), DetectorKey(1, AtomOD1, 2), DetectorKey(2, AtomO, 1),
     DetectorKey(1, AtomO, 1), DetectorKey(10, AtomO, 2), DetectorKey(2, AtomO, 10),
     NucleotideKey}

\* distances, in tenths of an Angstrom: on the default threshold and just above
DistValues == {30, 31}

Range(q) == {q[i] : i \in 1..Len(q)}

\* the sequences without repetition of at most n elements of S
RECURSIVE DistinctSeqs(_, _)
DistinctSeqs(S, n) ==
    IF n = 0 THEN {<<>>}
    ELSE LET shorter == DistinctSeqs(S, n - 1)
         IN  shorter \cup
             UNION {{Append(q, x) : x \in S \ Range(q)} :
                        q \in {r \in shorter : Len(r) = n - 1}}

\* a trajectory as the detector sees it: the aggregate entry, then one key and one
\* distance series per candidate pair
Trajectory(n, keys, dist) ==
    [n_frames |-> n, keys |-> <<TotalKey>> \o keys, dist |-> dist]

\* a contact that forms at frame j (0-based) and stays: far before j, near from j on
StepSeries(n, j) == [f \in 1..n |-> IF f - 1 < j THEN 31 ELSE 30]

\* short trajectories: one candidate, every distance series of at most MaxFrames frames
ShortTrajectories ==
    UNION {{Trajectory(n, <<key>>, <<series>>) :
               key \in DetectorKeys, series \in [1..n -> DistValues]} : n \in 1..MaxFrames}

\* every list of at most MaxPairs candidates, the distance of a candidate the same in
\* each of the MaxFrames frames
ConstantTrajectories ==
    UNION {{Trajectory(MaxFrames, keys, [k \in 1..Len(keys) |-> [f \in 1..MaxFrames |-> v[k]]]) :
               v \in [1..Len(keys) -> DistValues]} : keys \in DistinctSeqs(DetectorKeys, MaxPairs)}

\* long trajectories: 10 and 80 frames, contacts that form at some frame and stay
LongKeys == {DetectorKey(1, AtomO, 2), DetectorKey(2, AtomO, 1)}

LongTrajectories ==
    {Trajectory(10, keys, <<StepSeries(10, j[1]), StepSeries(10, j[2])>>) :
        keys \in {q \in DistinctSeqs(LongKeys, 2) : Len(q) = 2}, j \in (0..10) \X (0..10)}
    \cup {Trajectory(80, <<key>>, <<StepSeries(80, j)>>) : key \in LongKeys, j \in 0..80}

\* --second-half-percent: the default 20.0, 57.5 and 100.0
Thresholds == {Float(20, 0), Float(115, -1), Float(100, 0)}

-----------------------------------------------------------------------------
(* hydrogen_bonds and sort_contacts.                                       *)

\* dist[idx][int(len(dist[idx])/2):]
SecondHalf(series) == SubSeq(series, Len(series) \div 2 + 1, Len(series))

\* len(second_half[second_half <= dist_thr])
Near(second_half, dist_thr) ==
    Cardinality({f \in 1..Len(second_half) : second_half[f] <= dist_thr})

\* len(dist[idx][dist[idx] <= dist_thr]) / len(dist[idx]) * 100 over the second half
pct_contacts(series, dist_thr) ==
    FloatTimes(TrueDiv(Near(SecondHalf(series), dist_thr), Len(SecondHalf(series))), 100)

\* the branch of the loop of hydrogen_bonds a candidate takes
IntraResidueMutant(m) == FALSE

IntraResidue(m) == m.group2 = m.group4

Verdict(key, series, dist_thr, thr) ==
    LET m == pattern_contact_search(key)
    IN  IF ~m.matched THEN "no match"
        ELSE IF IntraResidue(m) THEN "intra"
        ELSE IF FloatGeq(pct_contacts(series, dist_thr), FloatOf(thr)) THEN "kept"
        ELSE "low"

\* the increasing sequence of a set of integers, and of a set of strings
RECURSIVE SortedInts(_)
SortedInts(S) ==
    IF S = {} THEN <<>> ELSE <<SetMin(S)>> \o SortedInts(S \ {SetMin(S)})

RECURSIVE SortedStrs(_)
SortedStrs(S) ==
    IF S = {} THEN <<>>
    ELSE LET least == CHOOSE x \in S : \A y \in S \ {x} : StrLess(x, y)
         IN  <<least>> \o SortedStrs(S \ {least})

RECURSIVE Flatten(_)
Flatten(seqs) == IF seqs = <<>> THEN <<>> ELSE Head(seqs) \o Flatten(Tail(seqs))

\* sort_contacts(contact_names, pattern): sys.exit(1) on a name the pattern misses,
\* else "frames" and then the names by donor position, acceptor position and name
sort_contactsMutant(contact_names) ==
    LET names == Range(contact_names) \ {FramesKey}
        donor(c) == pattern_contact_search(c).group2
        acceptor(c) == pattern_contact_search(c).group4
        before(a, b) ==
            \/ StrLess(donor(a), donor(b))
            \/ donor(a) = donor(b) /\ StrLess(acceptor(a), acceptor(b))
            \/ donor(a) = donor(b) /\ acceptor(a) = acceptor(b) /\ StrLess(a, b)
        rank(c) == 1 + Cardinality({x \in names : before(x, c)})
    IN  IF \E c \in names : ~pattern_contact_search(c).matched
        THEN [exit |-> 1, ordered |-> <<>>]
        ELSE [exit |-> Running,
              ordered |-> SelectSeq(contact_names, LAMBDA c : c = FramesKey)
                          \o [i \in 1..Cardinality(names) |->
                                 CHOOSE c \in names : rank(c) = i]]

sort_contactsUnsorted(contact_names) ==
    IF \E c \in Range(contact_names) \ {FramesKey} : ~pattern_contact_search(c).matched
    THEN [exit |-> 1, ordered |-> <<>>]
    ELSE [exit |-> Running, ordered |-> contact_names]

sort_contacts(contact_names) ==
    LET names == Range(contact_names) \ {FramesKey}
        donor(c) == StrToInt(pattern_contact_search(c).group2)
        acceptor(c) == StrToInt(pattern_contact_search(c).group4)
        key1s == SortedInts({donor(c) : c \in names})
        key2s(k1) == SortedInts({acceptor(c) : c \in {x \in names : donor(x) = k1}})
        listed(k1, k2) == SortedStrs({c \in names : donor(c) = k1 /\ acceptor(c) = k2})
        of1(k1) == Flatten([i \in 1..Len(key2s(k1)) |-> listed(k1, key2s(k1)[i])])
    IN  IF \E c \in names : ~pattern_contact_search(c).matched
        THEN [exit |-> 1, ordered |-> <<>>]
        ELSE [exit |-> Running,
              ordered |-> SelectSeq(contact_names, LAMBDA c : c = FramesKey)
                          \o Flatten([i \in 1..Len(key1s) |-> of1(key1s[i])])]

\* hydrogen_bonds(traj, dist_thr, contacts_frame_thr_2nd_half, pattern_hb): the exit
\* status when it ends the run, else the table, as its columns in order
hydrogen_bonds(traj, dist_thr, thr) ==
    LET candidates == Tail(traj.keys)
        verdict(i) == Verdict(candidates[i], traj.dist[i], dist_thr, thr)
        nb_total_contacts == Len(traj.keys) - 1
        nb_intra_residue_contacts ==
            Cardinality({i \in 1..Len(candidates) : verdict(i) = "intra"})
        nb_frames_contacts_2nd_half_thr ==
            Cardinality({i \in 1..Len(candidates) : verdict(i) = "low"})
        nb_used_contacts ==
            nb_total_contacts - nb_intra_residue_contacts - nb_frames_contacts_2nd_half_thr
        kept == SelectSeq([i \in 1..Len(candidates) |-> i], LAMBDA i : verdict(i) = "kept")
        data_columns ==
            <<[name |-> FramesKey, values |-> [f \in 1..traj.n_frames |-> f - 1]]>>
            \o [c \in 1..Len(kept) |->
                   [name |-> candidates[kept[c]], values |-> traj.dist[kept[c]]]]
        sorted == sort_contacts([c \in 1..Len(data_columns) |-> data_columns[c].name])
        column(name) == CHOOSE col \in Range(data_columns) : col.name = name
    IN  IF nb_used_contacts = 0 THEN [exit |-> 0, df |-> <<>>]
        ELSE IF sorted.exit # Running THEN [exit |-> sorted.exit, df |-> <<>>]
        ELSE [exit |-> Running,
              df |-> [c \in 1..Len(sorted.ordered) |-> column(sorted.ordered[c])]]

-----------------------------------------------------------------------------
(* __main__: the call of check_limits (lines 594-598).                     *)

MainCheckLimits ==
    /\ pc = "check_limits"
    /\ LET r == check_limits(args.mask, args.roi_hm)
       IN  IF r.raised # NoException
           THEN \* logging.error(exc); sys.exit(1)
                /\ raised' = r.raised
                /\ exit_code' = 1
                /\ pc' = "exit"
                /\ UNCHANGED limits_mask_roi
           ELSE /\ limits_mask_roi' = r.limits
                /\ pc' = "load_trajectory"
                /\ UNCHANGED <<raised, exit_code>>
    /\ UNCHANGED <<args, written, trajectory, h_bonds, data_h_bonds, stats, hm>>

\* check_limits on every pair of a mask and a region of interest
InitLimits ==
    \E mask \in MaskArgs, roi \in RoiArgs :
        StartAt("check_limits", Namespace(mask, roi, DefaultSecondHalfPercent, FALSE), NoTrajectory)

NextLimits == MainCheckLimits

SpecLimits == InitLimits /\ [][NextLimits]_vars

-----------------------------------------------------------------------------
(* __main__: the call of hydrogen_bonds (line 622).                        *)

MainHydrogenBonds ==
    /\ pc = "hydrogen_bonds"
    /\ LET r == hydrogen_bonds(trajectory, args.distance_contacts, args.second_half_percent)
       IN  /\ h_bonds' = [keys |-> trajectory.keys, dist |-> trajectory.dist]
           /\ IF r.exit # Running
              THEN \* sys.exit(0) of hydrogen_bonds, sys.exit(1) of sort_contacts
                   /\ exit_code' = r.exit
                   /\ pc' = "exit"
                   /\ UNCHANGED data_h_bonds
              ELSE /\ data_h_bonds' = r.df
                   /\ pc' = "plot_individual_contacts"
                   /\ UNCHANGED exit_code
    /\ UNCHANGED <<args, limits_mask_roi, raised, written, trajectory, stats, hm>>

\* hydrogen_bonds on every trajectory and every occupancy threshold
InitHB ==
    \E t \in ShortTrajectories \cup ConstantTrajectories \cup LongTrajectories,
       thr \in Thresholds :
        StartAt("hydrogen_bonds", Namespace(None, None, thr, FALSE), t)

NextHB == MainHydrogenBonds

SpecHB == InitHB /\ [][NextHB]_vars

-----------------------------------------------------------------------------
(* contacts_csv                                                            *)

\* stats.columns[5:], the columns a heat map is drawn for
MetricColumns ==
    <<"2nd_half_MD_mean_distance", "2nd_half_MD_median_distance",
      "whole_MD_mean_distance", "whole_MD_median_distance">>

RECURSIVE SeqSum(_)
SeqSum(q) == IF q = <<>> THEN 0 ELSE Head(q) + SeqSum(Tail(q))

\* sorted(q) for a sequence of integers
RECURSIVE SortedValues(_)
SortedValues(q) ==
    IF q = <<>> THEN <<>>
    ELSE LET i == CHOOSE a \in 1..Len(q) : \A b \in 1..Len(q) : q[a] <= q[b]
         IN  <<q[i]>> \o SortedValues(SubSeq(q, 1, i - 1) \o SubSeq(q, i + 1, Len(q)))

\* num / den rounded to the nearest integer, a tie to the even one
RoundHalfEven(num, den) ==
    LET q == num \div den
        r == num % den
    IN  IF 2 * r > den THEN q + 1
        ELSE IF 2 * r < den THEN q
        ELSE IF q % 2 = 0 THEN q ELSE q + 1

\* round(statistics.mean(values), 2), in hundredths of an Angstrom (values in tenths)
RoundedMean(values) == RoundHalfEven(10 * SeqSum(values), Len(values))

\* round(statistics.median(values), 2), in hundredths of an Angstrom
RoundedMedian(values) ==
    LET sorted == SortedValues(values)
        n == Len(values)
    IN  IF n % 2 = 1 THEN 10 * sorted[n \div 2 + 1]
        ELSE 5 * (sorted[n \div 2] + sorted[n \div 2 + 1])

\* a cell of a position column: the text the pattern captured, or the integer
\* pd.to_numeric made of it
Text(s) == [str |-> s]
Number(n) == [num |-> n]

\* the row of the statistics table for one contact column, with index label idx
StatsRow(idx, col) ==
    LET m == pattern_contact_search(col.name)
    IN  [index |-> idx, contact |-> col.name]
        @@ ("donor position" :> Text(m.group2))
        @@ ("donor residue" :> m.group1)
        @@ ("acceptor position" :> Text(m.group4))
        @@ ("acceptor residue" :> m.group3)
        @@ ("2nd_half_MD_mean_distance" :> RoundedMean(SecondHalf(col.values)))
        @@ ("2nd_half_MD_median_distance" :> RoundedMedian(SecondHalf(col.values)))
        @@ ("whole_MD_mean_distance" :> RoundedMean(col.values))
        @@ ("whole_MD_median_distance" :> RoundedMedian(col.values))

KeyError(key) == [exc |-> "KeyError", msg |-> key]
ValueError(msg) == [exc |-> "ValueError", msg |-> msg]

\* contacts_csv(df, ...): the statistics table, one row per contact column; a name
\* the pattern misses appends to data["acceptor_residue"], a key data does not have
contacts_csv(df) ==
    IF \E c \in 2..Len(df) : ~pattern_contact_search(df[c].name).matched
    THEN [raised |-> KeyError("acceptor_residue"), stats |-> <<>>]
    ELSE [raised |-> NoException,
          stats |-> [c \in 1..(Len(df) - 1) |-> StatsRow(c - 1, df[c + 1])]]

-----------------------------------------------------------------------------
(* reduce_contacts_dataframe and get_df_distances_nb_contacts.             *)

\* pd.to_numeric of a cell of a position column
ToNumeric(cell) == IF "str" \in DOMAIN cell THEN Number(StrToInt(cell.str)) ELSE cell

\* the table with its two position columns converted (lines 392-393)
PositionsToNumeric(df) ==
    [i \in 1..Len(df) |->
        [df[i] EXCEPT !["donor position"] = ToNumeric(@),
                      !["acceptor position"] = ToNumeric(@)]]

Donor(row) == row["donor position"].num
Acceptor(row) == row["acceptor position"].num

\* df["donor position"].between(limits_roi["min"], limits_roi["max"])
BetweenMutant(position, limits_roi) ==
    limits_roi.min < position /\ position <= limits_roi.max

Between(position, limits_roi) ==
    limits_roi.min <= position /\ position <= limits_roi.max

\* f"{donor}_{acceptor}", the name under which a pair is registered
PairName(row) ==
    IntToStr(Donor(row)) \o row["donor residue"] \o <<"_">>
        \o IntToStr(Acceptor(row)) \o row["acceptor residue"]

\* tmp_df[[dist_col]].idxmin(): the row of the group with the minimal value of the
\* column, the first one when several rows hold the minimum
idxminMutant(rows, group, dist_col) ==
    SetMax({j \in group : \A k \in group : rows[j][dist_col] <= rows[k][dist_col]})

idxmin(rows, group, dist_col) ==
    SetMin({j \in group : \A k \in group : rows[j][dist_col] <= rows[k][dist_col]})

\* reduce_contacts_dataframe(df, dist_col, limits_roi) on a table whose position
\* columns are numeric: the rows left, each with its "number contacts"
reduce_contacts_dataframe(df, dist_col, limits_roi) ==
    LET rows == IF limits_roi # EmptyDict
                THEN SelectSeq(df, LAMBDA row : Between(Donor(row), limits_roi))
                ELSE df
        \* the rows at which a pair name is met for the first time, in order
        first_seen == SelectSeq([i \in 1..Len(rows) |-> i],
                          LAMBDA i : \A j \in 1..(i - 1) : PairName(rows[j]) # PairName(rows[i]))
        tmp_df(i) == {j \in 1..Len(rows) :
                         Donor(rows[j]) = Donor(rows[i]) /\ Acceptor(rows[j]) = Acceptor(rows[i])}
        idx_min(i) == idxmin(rows, tmp_df(i), dist_col)
        idx_to_remove == UNION {tmp_df(first_seen[g]) \ {idx_min(first_seen[g])} :
                                   g \in 1..Len(first_seen)}
        donor_acceptor_nb_contacts ==
            [g \in 1..Len(first_seen) |-> Cardinality(tmp_df(first_seen[g]))]
        left == SelectSeq([i \in 1..Len(rows) |-> i], LAMBDA i : i \notin idx_to_remove)
    IN  IF Len(left) # Len(donor_acceptor_nb_contacts)
        THEN [raised |-> ValueError("Length of values does not match length of index"),
              df |-> <<>>]
        ELSE [raised |-> NoException,
              df |-> [i \in 1..Len(left) |->
                         rows[left[i]] @@ ("number contacts" :> donor_acceptor_nb_contacts[i])]]

\* the label of a position on the heat map: the position, moved by the mask minimum
\* less one when a mask was applied, then the residue name
AxisLabel(position, residue, limits_mask) ==
    IntToStr(IF limits_mask # EmptyDict THEN position + limits_mask.min - 1 ELSE position)
        \o residue

\* df.loc[(df["donor position"] == donor_position)
\*        & (df["acceptor position"] == acceptor_position), column]: the set of its
\* values[0], empty (None is appended) when no row is selected
LookupMutant(df, donor_position, acceptor_position, column) ==
    LET found == {i \in 1..Len(df) : Donor(df[i]) = donor_position}
    IN  IF found = {} THEN {} ELSE {df[SetMin(found)][column]}

Lookup(df, donor_position, acceptor_position, column) ==
    LET found == {i \in 1..Len(df) :
                     /\ Donor(df[i]) = donor_position
                     /\ Acceptor(df[i]) = acceptor_position}
    IN  IF found = {} THEN {} ELSE {df[SetMin(found)][column]}

\* get_df_distances_nb_contacts(df, dist_col, limits_mask): the labels of the rows
\* (donors) and of the columns (acceptors) and the two matrices; a cell is the set of
\* the value it holds, empty for None
get_df_distances_nb_contacts(df, dist_col, limits_mask) ==
    LET unique_donor_positions == SortedInts({Donor(df[i]) : i \in 1..Len(df)})
        unique_acceptor_positions == SortedInts({Acceptor(df[i]) : i \in 1..Len(df)})
        first_with(column, position) ==
            df[SetMin({i \in 1..Len(df) : df[i][column].num = position})]
        donors == [d \in 1..Len(unique_donor_positions) |->
                      AxisLabel(unique_donor_positions[d],
                                first_with("donor position",
                                           unique_donor_positions[d])["donor residue"],
                                limits_mask)]
        acceptors == [a \in 1..Len(unique_acceptor_positions) |->
                         AxisLabel(unique_acceptor_positions[a],
                                   first_with("acceptor position",
                                              unique_acceptor_positions[a])["acceptor residue"],
                                   limits_mask)]
        cell(d, a, column) ==
            Lookup(df, unique_donor_positions[d], unique_acceptor_positions[a], column)
    IN  [donors |-> donors,
         acceptors |-> acceptors,
         donor_positions |-> unique_donor_positions,
         acceptor_positions |-> unique_acceptor_positions,
         distances |-> [d \in 1..Len(donors) |->
                           [a \in 1..Len(acceptors) |-> cell(d, a, dist_col)]],
         nb_contacts |-> [d \in 1..Len(donors) |->
                             [a \in 1..Len(acceptors) |-> cell(d, a, "number contacts")]]]

-----------------------------------------------------------------------------
(* heat_map_contacts                                                       *)

\* heat_map_contacts(df_residues, distances_col, ..., limits) on a table whose position
\* columns are numeric: the reduced table, the two matrices and the subtitle bounds, or
\* the exception that ends the run
heat_map_contacts(df_residues, distances_col, limits) ==
    LET reduced == reduce_contacts_dataframe(df_residues, distances_col, limits.roi)
        source == get_df_distances_nb_contacts(reduced.df, distances_col, limits.mask)
    IN  IF reduced.raised # NoException THEN [raised |-> reduced.raised]
        ELSE IF Len(source.donors) = 0
        THEN \* sns.heatmap of a matrix without a cell
             [raised |-> ValueError("zero-size array to reduction operation fmin")]
        ELSE IF limits.roi # EmptyDict /\ limits.mask = EmptyDict
        THEN \* limits["mask"]["min"] of the subtitle
             [raised |-> KeyError("min")]
        ELSE [raised |-> NoException,
              map |-> [distances_col |-> distances_col,
                       df_residues |-> reduced.df,
                       source |-> source,
                       subtitle |-> IF limits.roi # EmptyDict
                                    THEN <<limits.mask.min + limits.roi.min,
                                           limits.mask.min + limits.roi.max>>
                                    ELSE <<>>]]

-----------------------------------------------------------------------------
(* __main__, from the loading of the trajectory to the heat maps.          *)

RuntimeError(msg) == [exc |-> "RuntimeError", msg |-> msg]

\* the residue numbers a detector name carries
KeyPositions(key) ==
    IF pattern_contact_search(key).matched
    THEN {StrToInt(pattern_contact_search(key).group2),
          StrToInt(pattern_contact_search(key).group4)}
    ELSE {1, 2}

\* traj[mask]: the residues of the selection are numbered from 1
Loadable(t, mask) ==
    LET m == pattern_mask_search(mask)
        n_residues == StrToInt(m.group2) - StrToInt(m.group1) + 1
    IN  IF mask = None THEN TRUE
        ELSE \A k \in 2..Len(t.keys) : \A p \in KeyPositions(t.keys[k]) : p <= n_residues

\* three contacts of two pairs of residues, in every order of the detector, each contact
\* there from the first frame or forming before the second half of the run
StepKeys == {DetectorKey(1, AtomO, 2), DetectorKey(1, AtomOD1, 2), DetectorKey(2, AtomO, 1)}

StepTrajectories ==
    {Trajectory(MaxFrames, keys, [k \in 1..3 |-> StepSeries(MaxFrames, j[k])]) :
        keys \in {q \in DistinctSeqs(StepKeys, 3) : Len(q) = 3},
        j \in [1..3 -> 0..(MaxFrames \div 2)]}

\* trajectory = load_trajectory(args.input, args.topology, args.mask)
MainLoadTrajectory ==
    /\ pc = "load_trajectory"
    /\ \E t \in ConstantTrajectories \cup StepTrajectories :
          /\ Loadable(t, args.mask)
          /\ trajectory' = t
    /\ pc' = "rmsd"
    /\ UNCHANGED <<args, limits_mask_roi, raised, exit_code, written, h_bonds,
                   data_h_bonds, stats, hm>>

\* the RuntimeError or ValueError of the loading: logging.error, sys.exit(1)
MainLoadTrajectoryFails ==
    /\ pc = "load_trajectory"
    /\ raised' = RuntimeError("load")
    /\ exit_code' = 1
    /\ pc' = "exit"
    /\ UNCHANGED <<args, limits_mask_roi, written, trajectory, h_bonds, data_h_bonds,
                   stats, hm>>

\* rmsd(trajectory, ...): the RMSD plot
MainRmsd ==
    /\ pc = "rmsd"
    /\ written' = Append(written, [file |-> "RMSD plot", of |-> "RMSD"])
    /\ pc' = "hydrogen_bonds"
    /\ UNCHANGED <<args, limits_mask_roi, raised, exit_code, trajectory, h_bonds,
                   data_h_bonds, stats, hm>>

\* if args.individual_plots: plot_individual_contacts(data_h_bonds, ...)
MainPlotIndividualContacts ==
    /\ pc = "plot_individual_contacts"
    /\ written' = IF args.individual_plots
                  THEN written \o [c \in 1..(Len(data_h_bonds) - 1) |->
                                      [file |-> "contact plot", of |-> data_h_bonds[c + 1].name]]
                  ELSE written
    /\ pc' = "contacts_csv"
    /\ UNCHANGED <<args, limits_mask_roi, raised, exit_code, trajectory, h_bonds,
                   data_h_bonds, stats, hm>>

\* stats = contacts_csv(data_h_bonds, ...)
MainContactsCsv ==
    /\ pc = "contacts_csv"
    /\ LET r == contacts_csv(data_h_bonds)
       IN  IF r.raised # NoException
           THEN /\ raised' = r.raised
                /\ exit_code' = 1
                /\ pc' = "exit"
                /\ UNCHANGED <<stats, written>>
           ELSE /\ stats' = r.stats
                /\ written' = Append(written, [file |-> "contacts CSV", of |-> "contacts"])
                /\ pc' = "hm_text"
                /\ UNCHANGED <<raised, exit_code>>
    /\ UNCHANGED <<args, limits_mask_roi, trajectory, h_bonds, data_h_bonds, hm>>

\* hm_text (lines 631-636): with --roi-hm it reads limits_mask_roi["mask"]["min"]
MainHmText ==
    /\ pc = "hm_text"
    /\ IF Truthy(args.roi_hm) /\ limits_mask_roi.mask = EmptyDict
       THEN /\ raised' = KeyError("min")
            /\ exit_code' = 1
            /\ pc' = "exit"
       ELSE /\ pc' = "heat_map"
            /\ UNCHANGED <<raised, exit_code>>
    /\ UNCHANGED <<args, limits_mask_roi, written, trajectory, h_bonds, data_h_bonds,
                   stats, hm>>

\* one turn of the loop over stats.columns[5:]: heat_map_contacts(stats, column, ...);
\* the script ends after the last column
MainHeatMap ==
    /\ pc = "heat_map"
    /\ LET distances_column_id == MetricColumns[Len(hm) + 1]
           numeric == PositionsToNumeric(stats)
           r == heat_map_contacts(numeric, distances_column_id, limits_mask_roi)
       IN  /\ stats' = numeric
           /\ IF r.raised # NoException
              THEN /\ raised' = r.raised
                   /\ exit_code' = 1
                   /\ pc' = "exit"
                   /\ UNCHANGED <<hm, written>>
              ELSE /\ hm' = Append(hm, r.map)
                   /\ written' = Append(written, [file |-> "heat map",
                                                  of |-> distances_column_id])
                   /\ IF Len(hm) + 1 = Len(MetricColumns)
                      THEN pc' = "exit" /\ exit_code' = 0
                      ELSE pc' = "heat_map" /\ UNCHANGED exit_code
                   /\ UNCHANGED raised
    /\ UNCHANGED <<args, limits_mask_roi, trajectory, h_bonds, data_h_bonds>>

\* the command lines of a run
RunMasks == {None, MaskStr(<<"1">>, <<"3">>), MaskStr(<<"1">>, <<"4">>)}
RunRois == {None, RoiStr(<<"1">>, <<"1">>), RoiStr(<<"1">>, <<"2">>)}

RunArgs ==
    {Namespace(mask, roi, DefaultSecondHalfPercent, FALSE) : mask \in RunMasks, roi \in RunRois}
    \cup {Namespace(None, None, DefaultSecondHalfPercent, TRUE)}

Init == \E a \in RunArgs : StartAt("check_limits", a, NoTrajectory)

Next ==
    \/ MainCheckLimits
    \/ MainLoadTrajectory
    \/ MainLoadTrajectoryFails
    \/ MainRmsd
    \/ MainHydrogenBonds
    \/ MainPlotIndividualContacts
    \/ MainContactsCsv
    \/ MainHmText
    \/ MainHeatMap

Spec == Init /\ [][Next]_vars

-----------------------------------------------------------------------------
(* heat_map_contacts on every small statistics table, its rows in any      *)
(* order, and every limits.                                                *)

\* the contacts of the tables: two atoms of one pair, the pair reversed, a third pair
ReduceKeys ==
    {DetectorKey(1, AtomO, 2), DetectorKey(1, AtomOD1, 2), DetectorKey(2, AtomO, 1),
     DetectorKey(10, AtomO, 2)}

\* the distances of a contact over two frames: the whole run and its second half
\* order the contacts differently
ReduceSeries == {<<30, 30>>, <<31, 30>>, <<30, 31>>}

\* the statistics tables of at most MaxRows contacts over two frames
ReduceTables ==
    UNION {{contacts_csv(<<[name |-> FramesKey, values |-> <<0, 1>>]>>
                         \o [c \in 1..Len(keys) |-> [name |-> keys[c], values |-> v[c]]]).stats :
               v \in [1..Len(keys) -> ReduceSeries]} : keys \in DistinctSeqs(ReduceKeys, MaxRows)}

ReduceMaskLimits == {EmptyDict, [min |-> 2, max |-> 20]}

ReduceRoiLimits ==
    {EmptyDict, [min |-> 1, max |-> 1], [min |-> 1, max |-> 2], [min |-> 2, max |-> 10]}

\* the command line that gives the limits
ArgsOf(limits) ==
    Namespace(IF limits.mask = EmptyDict THEN None
              ELSE MaskStr(IntToStr(limits.mask.min), IntToStr(limits.mask.max)),
              IF limits.roi = EmptyDict THEN None
              ELSE RoiStr(IntToStr(limits.roi.min), IntToStr(limits.roi.max)),
              DefaultSecondHalfPercent, FALSE)

InitReduce ==
    \E table \in ReduceTables, lm \in ReduceMaskLimits, lr \in ReduceRoiLimits :
        /\ pc = "heat_map"
        /\ args = ArgsOf([mask |-> lm, roi |-> lr])
        /\ limits_mask_roi = [mask |-> lm, roi |-> lr]
        /\ raised = NoException
        /\ exit_code = Running
        /\ written = <<>>
        /\ trajectory = NoTrajectory
        /\ h_bonds = <<>>
        /\ data_h_bonds = <<>>
        /\ stats = table
        /\ hm = <<>>

NextReduce == MainHeatMap

SpecReduce == InitReduce /\ [][NextReduce]_vars

-----------------------------------------------------------------------------
(* contacts_csv on every small table of contacts, the names the pattern    *)
(* misses included.                                                        *)

StatsKeys == {DetectorKey(1, AtomO, 2), DetectorKey(2, AtomO, 1), NucleotideKey}

\* the tables of at most MaxPairs contact columns over two frames
StatsTables ==
    UNION {{<<[name |-> FramesKey, values |-> <<0, 1>>]>>
            \o [c \in 1..Len(keys) |-> [name |-> keys[c], values |-> v[c]]] :
               v \in [1..Len(keys) -> ReduceSeries]} : keys \in DistinctSeqs(StatsKeys, MaxPairs)}

InitStats ==
    \E table \in StatsTables :
        /\ pc = "contacts_csv"
        /\ args = Namespace(None, None, DefaultSecondHalfPercent, FALSE)
        /\ limits_mask_roi = [mask |-> EmptyDict, roi |-> EmptyDict]
        /\ raised = NoException
        /\ exit_code = Running
        /\ written = <<>>
        /\ trajectory = NoTrajectory
        /\ h_bonds = <<>>
        /\ data_h_bonds = table
        /\ stats = <<>>
        /\ hm = <<>>

NextStats == MainContactsCsv

SpecStats == InitStats /\ [][NextStats]_vars

-----------------------------------------------------------------------------
(* Properties of check_limits.                                             *)

IsWellFormedMask(s) == s \in WellFormedMasks
IsWellFormedRoi(s) == s \in WellFormedRois

\* the numbers a, b of ":a-b" and c, d of "c-d", read off the strings' parts
MaskA(s) == StrToInt(SubSeq(s, 2, (CHOOSE i \in 1..Len(s) : s[i] = "-") - 1))
MaskB(s) == StrToInt(SubSeq(s, (CHOOSE i \in 1..Len(s) : s[i] = "-") + 1, Len(s)))
RoiC(s) == StrToInt(SubSeq(s, 1, (CHOOSE i \in 1..Len(s) : s[i] = "-") - 1))
RoiD(s) == StrToInt(SubSeq(s, (CHOOSE i \in 1..Len(s) : s[i] = "-") + 1, Len(s)))

CheckLimitsReturned == pc = "load_trajectory"
CheckLimitsFailed == pc = "exit" /\ exit_code = 1 /\ raised.exc = "ArgumentTypeError"

OutOfRange ==
    /\ CheckLimitsFailed
    /\ raised.msg \in {"roi minimum limit is outside the mask limits",
                       "roi maximum limit is outside the mask limits"}

\* C1: with a well-formed mask ":a-b" and a well-formed region of interest "c-d",
\* check_limits fails with OutOfRange exactly when a + c >= b or a + d >= b, and
\* otherwise returns {mask: {min: a, max: b}, roi: {min: c, max: d}}.
C1_OutOfRangeExactly ==
    (pc # "check_limits" /\ IsWellFormedMask(args.mask) /\ IsWellFormedRoi(args.roi_hm)) =>
        LET a == MaskA(args.mask)
            b == MaskB(args.mask)
            c == RoiC(args.roi_hm)
            d == RoiD(args.roi_hm)
        IN  IF a + c >= b \/ a + d >= b
            THEN OutOfRange
            ELSE /\ CheckLimitsReturned
                 /\ exit_code = Running
                 /\ limits_mask_roi = [mask |-> [min |-> a, max |-> b],
                                       roi  |-> [min |-> c, max |-> d]]

\* C1 witness: a region of interest that ends exactly on the mask maximum is refused
\* (a + d = b), and one inside the mask is returned.
C1_Witness ==
    /\ pc # "check_limits"
    /\ IsWellFormedMask(args.mask) /\ IsWellFormedRoi(args.roi_hm)
    /\ MaskA(args.mask) + RoiC(args.roi_hm) < MaskB(args.mask)
    /\ MaskA(args.mask) + RoiD(args.roi_hm) = MaskB(args.mask)
    /\ OutOfRange

\* C10: every mask limits value returned by check_limits has min < max.
C10_MaskMinBelowMax ==
    (CheckLimitsReturned /\ limits_mask_roi.mask # EmptyDict) =>
        limits_mask_roi.mask.min < limits_mask_roi.mask.max

InvalidFormat ==
    /\ CheckLimitsFailed
    /\ raised.msg \in {"mask is not a valid format", "roi-hm is not a valid format"}

\* C11: check_limits fails with InvalidFormat for every non-empty mask that is not
\* exactly ":<digits>-<digits>" (characters before or after the form included) and for
\* every non-empty region of interest that is not exactly "<digits>-<digits>", and it
\* does not fail with InvalidFormat when each string given has its form.
C11_InvalidFormatExactly ==
    pc # "check_limits" =>
        (InvalidFormat
            <=> \/ (Truthy(args.mask) /\ ~IsWellFormedMask(args.mask))
                \/ (Truthy(args.roi_hm) /\ ~IsWellFormedRoi(args.roi_hm)))

-----------------------------------------------------------------------------
(* Properties of hydrogen_bonds.                                           *)

HydrogenBondsCalled == pc \notin {"check_limits", "load_trajectory", "rmsd", "hydrogen_bonds"}
                       /\ h_bonds # <<>>

\* the candidate pairs the detector listed (the aggregate entry left out)
Candidates == 1..(Len(h_bonds.keys) - 1)
CandidateKey(i) == h_bonds.keys[i + 1]

\* the names of the contact columns of the table (the frame column left out)
ContactColumns == {data_h_bonds[c].name : c \in 1..Len(data_h_bonds)} \ {FramesKey}

DonorPosition(key) == StrToInt(pattern_contact_search(key).group2)
AcceptorPosition(key) == StrToInt(pattern_contact_search(key).group4)

\* the exact percentage of the frames floor(n/2)..n-1 within the threshold is at least
\* m * 2^e: 100 * near >= m * 2^e * length, in integers
OccupancyAtLeast(series, dist_thr, thr) ==
    LET half == SecondHalf(series)
        near == Cardinality({f \in 1..Len(half) : half[f] <= dist_thr})
    IN  IF thr.e >= 0
        THEN 100 * near >= thr.m * Pow2(thr.e) * Len(half)
        ELSE 100 * near * Pow2(0 - thr.e) >= thr.m * Len(half)

\* C2: a candidate pair is kept in the table if and only if its donor and acceptor
\* positions differ and the percentage of the frames of the second half within the
\* distance threshold is at least the occupancy threshold (a pair exactly at the
\* threshold is kept).
C2_KeptIffOccupancy ==
    HydrogenBondsCalled =>
        \A i \in Candidates :
            pattern_contact_search(CandidateKey(i)).matched =>
                (CandidateKey(i) \in ContactColumns
                    <=> /\ DonorPosition(CandidateKey(i)) # AcceptorPosition(CandidateKey(i))
                        /\ OccupancyAtLeast(h_bonds.dist[i], args.distance_contacts,
                                            args.second_half_percent))

\* C3: no column of the table belongs to a pair whose donor and acceptor positions
\* are the same integer.
C3_NoIntraResidueColumn ==
    HydrogenBondsCalled =>
        \A key \in ContactColumns : DonorPosition(key) # AcceptorPosition(key)

\* C3 witness: a table was returned although the detector listed an intra-residue
\* pair that is within the distance threshold in every frame.
C3_Witness ==
    /\ HydrogenBondsCalled
    /\ ContactColumns # {}
    /\ \E i \in Candidates :
        /\ pattern_contact_search(CandidateKey(i)).matched
        /\ DonorPosition(CandidateKey(i)) = AcceptorPosition(CandidateKey(i))
        /\ \A f \in 1..Len(h_bonds.dist[i]) : h_bonds.dist[i][f] <= args.distance_contacts

\* C4: a candidate name that does not match the pattern ends the run with exit
\* code 1 and no table.
C4_MismatchIsFatal ==
    (HydrogenBondsCalled /\ \E i \in Candidates : ~pattern_contact_search(CandidateKey(i)).matched)
        => (exit_code = 1 /\ data_h_bonds = <<>>)

\* the candidate pairs that survive: the name matches, the positions differ, and the
\* occupancy of the second half reaches the threshold
Survives(i) ==
    /\ pattern_contact_search(CandidateKey(i)).matched
    /\ DonorPosition(CandidateKey(i)) # AcceptorPosition(CandidateKey(i))
    /\ OccupancyAtLeast(h_bonds.dist[i], args.distance_contacts, args.second_half_percent)

RmsdPlot == [file |-> "RMSD plot", of |-> "RMSD"]

\* C5: when no candidate pair survives, whatever the discarded candidates are, the run
\* ends in hydrogen_bonds with exit code 0, the RMSD plot written and nothing else.
C5_NoSurvivorExitsCleanly ==
    (HydrogenBondsCalled /\ \A i \in Candidates : ~Survives(i)) =>
        /\ pc = "exit"
        /\ exit_code = 0
        /\ written = <<RmsdPlot>>

-----------------------------------------------------------------------------
(* Properties of the heat maps.                                            *)

\* the (donor position, acceptor position) pair of a row
Pair(row) == <<Donor(row), Acceptor(row)>>

\* the donor position p is in the region of interest: roi.min <= p <= roi.max, and
\* every position is when there is no region of interest
InRoi(p, roi) == roi = EmptyDict \/ (roi.min <= p /\ p <= roi.max)

\* the rows of the statistics table that pass the filter on the region of interest
RowsInRoi == {i \in 1..Len(stats) : InRoi(Donor(stats[i]), limits_mask_roi.roi)}

\* the tables reduce_contacts_dataframe returned, one for each heat map drawn
Reduced == {hm[i].df_residues : i \in 1..Len(hm)}

\* C6: reduce_contacts_dataframe returns exactly one row for each distinct pair among
\* the rows that pass the filter, and the "number contacts" of a returned row is the
\* number of the rows that pass the filter and have its pair.
C6_OneRowPerPairWithCount ==
    \A out \in Reduced :
        /\ {Pair(out[j]) : j \in 1..Len(out)} = {Pair(stats[i]) : i \in RowsInRoi}
        /\ \A j, k \in 1..Len(out) : Pair(out[j]) = Pair(out[k]) => j = k
        /\ \A j \in 1..Len(out) :
              out[j]["number contacts"]
                  = Cardinality({i \in RowsInRoi : Pair(stats[i]) = Pair(out[j])})

\* C7: with a region of interest the pairs of the returned table are those of the rows
\* whose donor position p has roi.min <= p <= roi.max, whatever the acceptor position;
\* with none they are the pairs of all the rows.
C7_RoiFilterInclusive ==
    \A out \in Reduced :
        {Pair(out[j]) : j \in 1..Len(out)}
            = {Pair(stats[i]) : i \in {r \in 1..Len(stats) :
                   \/ limits_mask_roi.roi = EmptyDict
                   \/ /\ limits_mask_roi.roi.min <= Donor(stats[r])
                      /\ Donor(stats[r]) <= limits_mask_roi.roi.max}}

\* C7 witness: a heat map was drawn with a region of interest whose two bounds are
\* donor positions of the table, a donor beyond the maximum being left out.
C7_Witness ==
    /\ Len(hm) > 0
    /\ limits_mask_roi.roi # EmptyDict
    /\ limits_mask_roi.roi.min < limits_mask_roi.roi.max
    /\ \E i, j, k \in 1..Len(stats) :
          /\ Donor(stats[i]) = limits_mask_roi.roi.min
          /\ Donor(stats[j]) = limits_mask_roi.roi.max
          /\ Donor(stats[k]) > limits_mask_roi.roi.max
    /\ \A out \in Reduced :
          {Donor(out[j]) : j \in 1..Len(out)}
              = {limits_mask_roi.roi.min, limits_mask_roi.roi.max}

\* the number a label of the heat map starts with
LabelNumber(label) == StrToInt(SelectSeq(label, IsDigit))

\* C8: with a mask ":a-b" and a region of interest "c-d" the number of every donor
\* label of a heat map is in a+c .. a+d.
C8_DonorLabelsInAnnouncedRange ==
    (limits_mask_roi.mask # EmptyDict /\ limits_mask_roi.roi # EmptyDict) =>
        \A i \in 1..Len(hm) : \A d \in 1..Len(hm[i].source.donors) :
            /\ limits_mask_roi.mask.min + limits_mask_roi.roi.min
                   <= LabelNumber(hm[i].source.donors[d])
            /\ LabelNumber(hm[i].source.donors[d])
                   <= limits_mask_roi.mask.min + limits_mask_roi.roi.max

\* C9: with a region of interest and no mask, check_limits returns the limits of the
\* region of interest and no mask limits, and the run is not ended for the missing
\* mask: once the CSV is written the heat maps follow.
C9_RoiWithoutMaskRuns ==
    (IsWellFormedRoi(args.roi_hm) /\ args.mask = None /\ pc # "check_limits") =>
        /\ raised.exc # "ArgumentTypeError"
        /\ limits_mask_roi = [mask |-> EmptyDict,
                              roi |-> [min |-> RoiC(args.roi_hm), max |-> RoiD(args.roi_hm)]]
        /\ ~(pc = "exit" /\ raised.exc = "KeyError" /\ Len(stats) > 0 /\ Len(hm) = 0)

\* the rows of the statistics table that pass the filter and have the pair p
Group(p) == {i \in RowsInRoi : Pair(stats[i]) = p}

\* the first of the rows of a group that hold the minimum of the column
FirstMinimum(group, column) ==
    SetMin({j \in group : \A k \in group : stats[j][column] <= stats[k][column]})

\* the index labels of the rows a heat map was drawn from
KeptIndex(h) == {hm[h].df_residues[j].index : j \in 1..Len(hm[h].df_residues)}

\* C12: of every group of rows sharing a pair, reduce_contacts_dataframe keeps the row
\* whose value in the metric column is the minimum of the group, the first such row in
\* input order when several hold it, and removes all the other rows of the group.
C12_KeepsFirstMinimum ==
    \A h \in 1..Len(hm) : \A i \in RowsInRoi :
        (stats[i].index \in KeptIndex(h))
            <=> (i = FirstMinimum(Group(Pair(stats[i])), hm[h].distances_col))

\* C12 witness: two rows of one pair tie on the metric of one heat map, whose row is
\* the first of the two, and differ on the metric of another, whose row is the second.
C12_Witness ==
    \E h, g \in 1..Len(hm) : \E i, j \in RowsInRoi :
        /\ i < j
        /\ Pair(stats[i]) = Pair(stats[j])
        /\ stats[i][hm[h].distances_col] = stats[j][hm[h].distances_col]
        /\ stats[j][hm[g].distances_col] < stats[i][hm[g].distances_col]
        /\ stats[i].index \in KeptIndex(h) /\ stats[j].index \notin KeptIndex(h)
        /\ stats[j].index \in KeptIndex(g) /\ stats[i].index \notin KeptIndex(g)

-----------------------------------------------------------------------------
(* Properties of the order of the contact columns.                         *)

\* the names of the columns of the table, in order
ColumnNames == [c \in 1..Len(data_h_bonds) |-> data_h_bonds[c].name]

\* the candidates the loop of hydrogen_bonds put in the table
Surviving ==
    {CandidateKey(i) : i \in {k \in Candidates :
        Verdict(CandidateKey(k), h_bonds.dist[k], args.distance_contacts,
                args.second_half_percent) = "kept"}}

\* contact a comes before contact b: by donor position, then by acceptor position, both
\* as integers, then by name
ContactBefore(a, b) ==
    \/ DonorPosition(a) < DonorPosition(b)
    \/ /\ DonorPosition(a) = DonorPosition(b)
       /\ AcceptorPosition(a) < AcceptorPosition(b)
    \/ /\ DonorPosition(a) = DonorPosition(b)
       /\ AcceptorPosition(a) = AcceptorPosition(b)
       /\ StrLess(a, b)

\* C13: the table returned by hydrogen_bonds has the frame column first, then every
\* surviving contact exactly once, each column before the next one in the order of
\* donor position, acceptor position (as integers) and name; the columns are thus a
\* function of the set of the survivors, not of the order the detector listed them in.
C13_ColumnsInContactOrder ==
    (HydrogenBondsCalled /\ data_h_bonds # <<>>) =>
        /\ ColumnNames[1] = FramesKey
        /\ {ColumnNames[c] : c \in 2..Len(ColumnNames)} = Surviving
        /\ Len(ColumnNames) = 1 + Cardinality(Surviving)
        /\ \A c \in 2..(Len(ColumnNames) - 1) :
              ContactBefore(ColumnNames[c], ColumnNames[c + 1])

\* C13 witness: the detector lists a contact of donor 10 before a contact of donor 2,
\* both survive, and the table has the contact of donor 2 first.
C13_Witness ==
    /\ HydrogenBondsCalled
    /\ \E i, j \in Candidates : \E c, d \in 2..Len(ColumnNames) :
          /\ i < j /\ d < c
          /\ ColumnNames[c] = CandidateKey(i) /\ DonorPosition(CandidateKey(i)) = 10
          /\ ColumnNames[d] = CandidateKey(j) /\ DonorPosition(CandidateKey(j)) = 2

-----------------------------------------------------------------------------
(* Properties of contacts_csv.                                             *)

\* the placeholder of lines 359-362
NotFound == <<"n", "o", "t", " ", "f", "o", "u", "n", "d">>

ContactsCsvCalled == pc \notin {"check_limits", "load_trajectory", "rmsd", "hydrogen_bonds",
                                "plot_individual_contacts", "contacts_csv"}

\* C14: a contact column whose name the pattern misses does not make contacts_csv fail:
\* the table has one row per contact column, the row of that column has "not found" in
\* its donor position, donor residue, acceptor position and acceptor residue, and its
\* mean and median statistics are those of the column.
C14_MismatchGetsPlaceholders ==
    ContactsCsvCalled =>
        \A c \in 2..Len(data_h_bonds) :
            ~pattern_contact_search(data_h_bonds[c].name).matched =>
                /\ raised = NoException
                /\ Len(stats) = Len(data_h_bonds) - 1
                /\ \A column \in {"donor position", "donor residue", "acceptor position",
                                  "acceptor residue"} :
                      stats[c - 1][column] \in {NotFound, Text(NotFound)}
                /\ stats[c - 1]["2nd_half_MD_mean_distance"]
                       = RoundedMean(SecondHalf(data_h_bonds[c].values))
                /\ stats[c - 1]["2nd_half_MD_median_distance"]
                       = RoundedMedian(SecondHalf(data_h_bonds[c].values))
                /\ stats[c - 1]["whole_MD_mean_distance"] = RoundedMean(data_h_bonds[c].values)
                /\ stats[c - 1]["whole_MD_median_distance"]
                       = RoundedMedian(data_h_bonds[c].values)

-----------------------------------------------------------------------------
(* Properties of the matrices of a heat map.                               *)

\* the sequence q of integers is strictly increasing
Ascending(q) == \A i \in 1..(Len(q) - 1) : q[i] < q[i + 1]

\* the rows of the aggregated table of heat map h whose pair is (d, a)
RowsOfPair(h, d, a) ==
    {j \in 1..Len(hm[h].df_residues) : Pair(hm[h].df_residues[j]) = <<d, a>>}

\* the number of cells of a matrix that are not null
NonNull(matrix) ==
    Cardinality({c \in (1..Len(matrix)) \X (1..Len(matrix[1])) : matrix[c[1]][c[2]] # {}})

\* C15: the distance matrix and the count matrix of a heat map have the same shape, one
\* row per distinct donor position and one column per distinct acceptor position of the
\* aggregated table, both ascending; the cell (d, a) holds the metric value and the
\* "number contacts" of the aggregated row of the pair (d, a), and is null when there
\* is no such row, so each matrix has as many non-null cells as the table has rows.
C15_MatricesOfAggregatedTable ==
    \A h \in 1..Len(hm) :
        LET out == hm[h].df_residues
            src == hm[h].source
            dp == src.donor_positions
            ap == src.acceptor_positions
        IN  /\ Ascending(dp) /\ Range(dp) = {Donor(out[j]) : j \in 1..Len(out)}
            /\ Ascending(ap) /\ Range(ap) = {Acceptor(out[j]) : j \in 1..Len(out)}
            /\ Len(src.donors) = Len(dp) /\ Len(src.acceptors) = Len(ap)
            /\ Len(src.distances) = Len(dp) /\ Len(src.nb_contacts) = Len(dp)
            /\ \A d \in 1..Len(dp) :
                  /\ Len(src.distances[d]) = Len(ap)
                  /\ Len(src.nb_contacts[d]) = Len(ap)
                  /\ \A a \in 1..Len(ap) :
                        IF RowsOfPair(h, dp[d], ap[a]) = {}
                        THEN src.distances[d][a] = {} /\ src.nb_contacts[d][a] = {}
                        ELSE \E j \in RowsOfPair(h, dp[d], ap[a]) :
                                /\ src.distances[d][a] = {out[j][hm[h].distances_col]}
                                /\ src.nb_contacts[d][a] = {out[j]["number contacts"]}
            /\ NonNull(src.distances) = Len(out)
            /\ NonNull(src.nb_contacts) = Len(out)

\* C15 witness: a heat map of two donors and two acceptors with null cells, drawn from
\* an aggregated table whose rows are not in the order of the donor positions.
C15_Witness ==
    \E h \in 1..Len(hm) :
        /\ Len(hm[h].source.donor_positions) = 2
        /\ Len(hm[h].source.acceptor_positions) = 2
        /\ Len(hm[h].df_residues) = 2
        /\ Donor(hm[h].df_residues[1]) > Donor(hm[h].df_residues[2])
        /\ NonNull(hm[h].source.distances) = 2
        /\ \E d, a \in 1..2 : hm[h].source.nb_contacts[d][a] = {}

-----------------------------------------------------------------------------
(* Properties of the pipeline: the statistics table and its reduction.     *)

\* the pair of a row of the statistics table, before or after pd.to_numeric
PairOf(row) ==
    <<ToNumeric(row["donor position"]).num, ToNumeric(row["acceptor position"]).num>>

\* the rows of the statistics table that share a pair are next to each other
Contiguous ==
    \A i, k \in 1..Len(stats) :
        (i < k /\ PairOf(stats[i]) = PairOf(stats[k]))
            => \A j \in i..k : PairOf(stats[j]) = PairOf(stats[i])

\* C16: in the pipeline the rows of the statistics table that share a pair are
\* contiguous, and for each metric column, with or without a region of interest, every
\* row of the aggregated table has the "number contacts" of its own pair: the number of
\* the rows with that pair that pass the filter.
C16_PipelineCountsOwnPair ==
    /\ Contiguous
    /\ \A h \in 1..Len(hm) : \A j \in 1..Len(hm[h].df_residues) :
          hm[h].df_residues[j]["number contacts"]
              = Cardinality({i \in RowsInRoi : Pair(stats[i]) = Pair(hm[h].df_residues[j])})

\* C16 witness: a run with a region of interest whose detector listed a contact of the
\* pair (1, 2), then one of the pair (2, 1), then the closest contact of the pair
\* (1, 2); the heat maps are drawn, the row kept for (1, 2) is not its first row, and
\* the counts are 2 for (1, 2) and 1 for (2, 1).
C16_Witness ==
    /\ Len(hm) = Len(MetricColumns)
    /\ limits_mask_roi.roi # EmptyDict
    /\ Len(h_bonds.keys) = 4
    /\ PairOf(stats[1]) = <<1, 2>>
    /\ <<DonorPosition(h_bonds.keys[2]), DonorPosition(h_bonds.keys[3]),
         DonorPosition(h_bonds.keys[4])>> = <<1, 2, 1>>
    /\ \E h \in 1..Len(hm) :
          LET out == hm[h].df_residues
          IN  /\ Len(out) = 2
              /\ out[1].index = 1 /\ Pair(out[1]) = <<1, 2>> /\ out[1]["number contacts"] = 2
              /\ out[2].index = 2 /\ Pair(out[2]) = <<2, 1>> /\ out[2]["number contacts"] = 1

=============================================================================
